---- MODULE Spec2Model ----
(***************************************************************************)
(* A model of the python client of Ack_Teleop_Twist_WS:                    *)
(*   twist_protocol.py  the binary wire codec (struct.pack / unpack)       *)
(*   main.py            ClockSync, the NTP-style clock synchronizer,       *)
(*                      Stats, the rolling measurements, and TwistClient,  *)
(*                      the receive loop, the sync loop, connect and close *)
(*                                                                         *)
(* SpecCodec drives the codec: an entity is encoded, the frame is extended,*)
(* cut or re-tagged on its way, and one of the four decoders is applied.   *)
(* SpecClock drives ClockSync.process over sequences of sync exchanges.    *)
(* SpecStats drives Stats.record over sequences of measurements.           *)
(* SpecClient drives one TwistClient: the transport delivers messages, the *)
(* callback, the publisher and the sends return or raise, time passes, and *)
(* the client is closed at any moment.                                     *)
(*                                                                         *)
(* A Python int is held as four 16-bit digits, least significant first     *)
(* (TLC's integers are 32 bits wide, the wire's are 64); a Python float is *)
(* held as its IEEE-754 sign, exponent and fraction digits.                *)
(***************************************************************************)
EXTENDS Integers, Sequences, FiniteSets, TLC

VARIABLES
    sent,       \* codec: the entity given to encode
    wire,       \* codec: the frame, a sequence of bytes
    stage,      \* codec: "new", "encoded", "extended", "altered"
    got,        \* codec: the outcome of the decoder applied to wire
    cap,        \* ClockSync._max
    offsets,    \* ClockSync._offsets
    rtts,       \* ClockSync._rtts
    offset,     \* ClockSync.offset
    rtt,        \* ClockSync.rtt
    calls,      \* clock: the (t1, t2, t3, t4) of every process call so far
    ret,        \* clock: what the last process call returned
    window,     \* Stats: the maxlen of its four deques
    latencies,  \* Stats._latencies
    decode_us,  \* Stats._decode_us
    process_us, \* Stats._process_us
    encode_us,  \* Stats._encode_us
    rx_count,   \* Stats.rx_count
    ack_count,  \* Stats.ack_count
    records,    \* stats: the arguments of every record call so far
    connected,  \* TwistClient._connected
    mainPc,     \* where the task running connect() and close() is
    recvPc,     \* where the _recv_loop task is
    syncPc,     \* where the _sync_loop task is
    cur,        \* _handle_twist's locals while it awaits the ack's send
    ackSent,    \* the ack frames whose send_bytes returned, in order
    syncLog,    \* the sync requests given to send_bytes, and how each ended
    handled,    \* the messages the transport delivered, and how each went
    now         \* the last value current_time_ms() returned

codecVars == <<sent, wire, stage, got>>
clockVars == <<cap, offsets, rtts, offset, rtt, calls, ret>>
statsVars == <<window, latencies, decode_us, process_us, encode_us,
               rx_count, ack_count, records>>
clientVars == <<connected, mainPc, recvPc, syncPc, cur, ackSent, syncLog,
                handled, now>>
vars == <<sent, wire, stage, got, cap, offsets, rtts, offset, rtt, calls, ret,
          window, latencies, decode_us, process_us, encode_us,
          rx_count, ack_count, records,
          connected, mainPc, recvPc, syncPc, cur, ackSent, syncLog, handled, now>>

(***************************************************************************)
(* Bounds of the model.                                                    *)
(***************************************************************************)
\* 8-byte words a relay may append to an encoded frame
MaxExtWords == 3
\* largest ClockSync capacity explored
MaxCap == 4
\* process calls explored per synchronizer
MaxCalls == 5
\* largest Stats window explored
MaxWindow == 3
\* record calls explored per Stats
MaxRecords == 5
\* messages the transport delivers to one client
MaxFrames == 2
\* sync requests the sync loop attempts
MaxSyncs == 1

(***************************************************************************)
(* Python values.                                                          *)
(***************************************************************************)
\* the int n (0 <= n < 2^31) as digits
PyInt(n) == <<n % 65536, n \div 65536, 0, 0>>
\* 2^64 - 1, the largest value of a 'Q' field
MaxQ == <<65535, 65535, 65535, 65535>>
\* a float from its sign bit, biased exponent and 52-bit fraction (16+16+16+4)
PyFloat(s, e, f) == [s |-> s, e |-> e, f |-> f]
F_0_0 == PyFloat(0, 0, <<0, 0, 0, 0>>)
F_1_5 == PyFloat(0, 1023, <<0, 0, 0, 8>>)
F_m0_75 == PyFloat(1, 1022, <<0, 0, 0, 8>>)
F_0_1 == PyFloat(0, 1019, <<39322, 39321, 39321, 9>>)
\* a finite negative float whose eight bytes all differ
F_big == PyFloat(1, 1500, <<258, 772, 1286, 7>>)

(***************************************************************************)
(* struct.pack / struct.unpack, little-endian ('<'), no padding.           *)
(***************************************************************************)
U16Bytes(d) == <<d % 256, d \div 256>>
U16Of(b, i) == b[i] + 256 * b[i + 1]

FieldSize(c) ==
    CASE c = "B" -> 1
      [] c = "I" -> 4
      [] c = "Q" -> 8
      [] c = "d" -> 8

PackField(c, v) ==
    CASE c = "B" -> <<v>>
      [] c = "I" -> U16Bytes(v[1]) \o U16Bytes(v[2])
      [] c = "Q" -> U16Bytes(v[1]) \o U16Bytes(v[2]) \o U16Bytes(v[3]) \o U16Bytes(v[4])
      [] c = "d" -> U16Bytes(v.f[1]) \o U16Bytes(v.f[2]) \o U16Bytes(v.f[3])
                    \o <<(v.e % 16) * 16 + v.f[4], v.s * 128 + v.e \div 16>>

UnpackField(c, b) ==
    CASE c = "B" -> b[1]
      [] c = "I" -> <<U16Of(b, 1), U16Of(b, 3), 0, 0>>
      [] c = "Q" -> <<U16Of(b, 1), U16Of(b, 3), U16Of(b, 5), U16Of(b, 7)>>
      [] c = "d" -> PyFloat(b[8] \div 128, (b[8] % 128) * 16 + b[7] \div 16,
                            <<U16Of(b, 1), U16Of(b, 3), U16Of(b, 5), b[7] % 16>>)

RECURSIVE StructPack(_, _)
StructPack(fmt, vals) ==
    IF fmt = <<>> THEN <<>>
    ELSE PackField(Head(fmt), Head(vals)) \o StructPack(Tail(fmt), Tail(vals))

\* data holds exactly the format's bytes (every caller slices to the size)
RECURSIVE StructUnpack(_, _)
StructUnpack(fmt, data) ==
    IF fmt = <<>> THEN <<>>
    ELSE <<UnpackField(Head(fmt), SubSeq(data, 1, FieldSize(Head(fmt))))>>
         \o StructUnpack(Tail(fmt), SubSeq(data, FieldSize(Head(fmt)) + 1, Len(data)))

\* Python's data[a:b] and values[i] (0-based)
Slice(data, a, b) == SubSeq(data, a + 1, b)
At(values, i) == values[i + 1]

(***************************************************************************)
(* twist_protocol.py: constants.                                           *)
(***************************************************************************)
TWIST == 1
TWIST_ACK == 2
CLOCK_SYNC_REQUEST == 3
CLOCK_SYNC_RESPONSE == 4

TWIST_BROWSER_FORMAT == <<"B", "Q", "Q", "d", "d", "d", "d", "d", "d">>
TWIST_BROWSER_SIZE == 65
TWIST_RELAY_FORMAT == <<"B", "Q", "Q", "d", "d", "d", "d", "d", "d", "Q", "Q">>
TWIST_RELAY_SIZE == 81
TWIST_ACK_PYTHON_FORMAT == <<"B", "Q", "Q", "Q", "Q", "Q", "Q", "I", "I", "I", "Q">>
TWIST_ACK_PYTHON_SIZE == 69
TWIST_ACK_BROWSER_SIZE == 77
CLOCK_SYNC_REQUEST_FORMAT == <<"B", "Q">>
CLOCK_SYNC_REQUEST_SIZE == 9
CLOCK_SYNC_RESPONSE_FORMAT == <<"B", "Q", "Q", "Q">>
CLOCK_SYNC_RESPONSE_SIZE == 25

(***************************************************************************)
(* twist_protocol.py: data classes.                                        *)
(***************************************************************************)
Zero == PyInt(0)

\* LatencyTimestamps(): every field defaults to 0
LatencyTimestamps ==
    [t1_browser_send |-> Zero, t2_relay_rx |-> Zero, t3_relay_tx |-> Zero,
     t4_relay_ack_rx |-> Zero, t5_relay_ack_tx |-> Zero,
     t3_python_rx |-> Zero, t4_python_ack |-> Zero,
     python_decode_us |-> Zero, python_process_us |-> Zero,
     python_encode_us |-> Zero]

TwistWithLatency(id, ts, lx, ly, lz, ax, ay, az) ==
    [kind |-> "Twist", message_id |-> id, timestamps |-> ts,
     linear_x |-> lx, linear_y |-> ly, linear_z |-> lz,
     angular_x |-> ax, angular_y |-> ay, angular_z |-> az]

TwistAck(id, ts) == [kind |-> "Ack", message_id |-> id, timestamps |-> ts]

ClockSyncRequest(t1) == [kind |-> "Req", t1 |-> t1]

ClockSyncResponse(t1, t2, t3) == [kind |-> "Resp", t1 |-> t1, t2 |-> t2, t3 |-> t3]

\* a decoder's outcome: the message it returns, or the ValueError it raises
\* ("length": the size check, "type": the leading-byte check)
NoMsg == [kind |-> "none"]
Returns(m) == [ok |-> TRUE, err |-> "none", msg |-> m]
Raises(e) == [ok |-> FALSE, err |-> e, msg |-> NoMsg]

(***************************************************************************)
(* twist_protocol.py: encode and decode.                                   *)
(***************************************************************************)
\* TwistEncode with linear_x and linear_y packed in each other's place
TwistEncode_SwappedXY(self) ==
    StructPack(TWIST_BROWSER_FORMAT,
               <<TWIST, self.message_id, self.timestamps.t1_browser_send,
                 self.linear_y, self.linear_x, self.linear_z,
                 self.angular_x, self.angular_y, self.angular_z>>)

TwistEncode(self) ==
    StructPack(TWIST_BROWSER_FORMAT,
               <<TWIST, self.message_id, self.timestamps.t1_browser_send,
                 self.linear_x, self.linear_y, self.linear_z,
                 self.angular_x, self.angular_y, self.angular_z>>)

\* TwistDecode taking the relay layout only for more than TWIST_RELAY_SIZE bytes
TwistDecode_StrictRelay(data) ==
    IF Len(data) < TWIST_BROWSER_SIZE THEN Raises("length")
    ELSE IF data[1] # TWIST THEN Raises("type")
    ELSE IF Len(data) > TWIST_RELAY_SIZE THEN
        LET values == StructUnpack(TWIST_RELAY_FORMAT, Slice(data, 0, TWIST_RELAY_SIZE))
        IN  Returns(TwistWithLatency(
                At(values, 1),
                [LatencyTimestamps EXCEPT !.t1_browser_send = At(values, 2),
                                          !.t2_relay_rx = At(values, 9),
                                          !.t3_relay_tx = At(values, 10)],
                At(values, 3), At(values, 4), At(values, 5),
                At(values, 6), At(values, 7), At(values, 8)))
    ELSE
        LET values == StructUnpack(TWIST_BROWSER_FORMAT, Slice(data, 0, TWIST_BROWSER_SIZE))
        IN  Returns(TwistWithLatency(
                At(values, 1),
                [LatencyTimestamps EXCEPT !.t1_browser_send = At(values, 2)],
                At(values, 3), At(values, 4), At(values, 5),
                At(values, 6), At(values, 7), At(values, 8)))

\* TwistDecode checking the leading byte before the length
TwistDecode_TypeFirst(data) ==
    IF Len(data) >= 1 /\ data[1] # TWIST THEN Raises("type")
    ELSE IF Len(data) < TWIST_BROWSER_SIZE THEN Raises("length")
    ELSE IF Len(data) >= TWIST_RELAY_SIZE THEN
        LET values == StructUnpack(TWIST_RELAY_FORMAT, Slice(data, 0, TWIST_RELAY_SIZE))
        IN  Returns(TwistWithLatency(
                At(values, 1),
                [LatencyTimestamps EXCEPT !.t1_browser_send = At(values, 2),
                                          !.t2_relay_rx = At(values, 9),
                                          !.t3_relay_tx = At(values, 10)],
                At(values, 3), At(values, 4), At(values, 5),
                At(values, 6), At(values, 7), At(values, 8)))
    ELSE
        LET values == StructUnpack(TWIST_BROWSER_FORMAT, Slice(data, 0, TWIST_BROWSER_SIZE))
        IN  Returns(TwistWithLatency(
                At(values, 1),
                [LatencyTimestamps EXCEPT !.t1_browser_send = At(values, 2)],
                At(values, 3), At(values, 4), At(values, 5),
                At(values, 6), At(values, 7), At(values, 8)))

TwistDecode(data) ==
    IF Len(data) < TWIST_BROWSER_SIZE THEN Raises("length")
    ELSE IF data[1] # TWIST THEN Raises("type")
    ELSE IF Len(data) >= TWIST_RELAY_SIZE THEN
        LET values == StructUnpack(TWIST_RELAY_FORMAT, Slice(data, 0, TWIST_RELAY_SIZE))
        IN  Returns(TwistWithLatency(
                At(values, 1),
                [LatencyTimestamps EXCEPT !.t1_browser_send = At(values, 2),
                                          !.t2_relay_rx = At(values, 9),
                                          !.t3_relay_tx = At(values, 10)],
                At(values, 3), At(values, 4), At(values, 5),
                At(values, 6), At(values, 7), At(values, 8)))
    ELSE
        LET values == StructUnpack(TWIST_BROWSER_FORMAT, Slice(data, 0, TWIST_BROWSER_SIZE))
        IN  Returns(TwistWithLatency(
                At(values, 1),
                [LatencyTimestamps EXCEPT !.t1_browser_send = At(values, 2)],
                At(values, 3), At(values, 4), At(values, 5),
                At(values, 6), At(values, 7), At(values, 8)))

\* AckEncode packing six timestamps ('<BQ6Q3IQ', as its docstring has it)
AckEncode_SixStamps(self) ==
    LET ts == self.timestamps
    IN  StructPack(<<"B", "Q", "Q", "Q", "Q", "Q", "Q", "Q", "I", "I", "I", "Q">>,
                   <<TWIST_ACK, self.message_id, ts.t1_browser_send,
                     ts.t2_relay_rx, ts.t3_relay_tx, ts.t4_relay_ack_rx,
                     ts.t3_python_rx, ts.t4_python_ack, ts.python_decode_us,
                     ts.python_process_us, ts.python_encode_us, Zero>>)

AckEncode(self) ==
    LET ts == self.timestamps
    IN  StructPack(TWIST_ACK_PYTHON_FORMAT,
                   <<TWIST_ACK, self.message_id, ts.t1_browser_send,
                     ts.t2_relay_rx, ts.t3_relay_tx, ts.t3_python_rx,
                     ts.t4_python_ack, ts.python_decode_us,
                     ts.python_process_us, ts.python_encode_us, Zero>>)

AckDecode(data) ==
    IF Len(data) < TWIST_ACK_PYTHON_SIZE THEN Raises("length")
    ELSE IF data[1] # TWIST_ACK THEN Raises("type")
    ELSE
        LET values == StructUnpack(TWIST_ACK_PYTHON_FORMAT,
                                   Slice(data, 0, TWIST_ACK_PYTHON_SIZE))
            timestamps ==
                [LatencyTimestamps EXCEPT !.t1_browser_send = At(values, 1),
                                          !.t2_relay_rx = At(values, 2),
                                          !.t3_relay_tx = At(values, 3),
                                          !.t3_python_rx = At(values, 4),
                                          !.t4_python_ack = At(values, 5),
                                          !.python_decode_us = At(values, 6),
                                          !.python_process_us = At(values, 7),
                                          !.python_encode_us = At(values, 8),
                                          !.t4_relay_ack_rx = At(values, 9)]
        IN  IF Len(data) >= TWIST_ACK_BROWSER_SIZE THEN
                LET t5 == At(StructUnpack(<<"Q">>,
                                 Slice(data, TWIST_ACK_PYTHON_SIZE, TWIST_ACK_BROWSER_SIZE)), 0)
                IN  Returns(TwistAck(At(values, 1),
                                     [timestamps EXCEPT !.t5_relay_ack_tx = t5]))
            ELSE Returns(TwistAck(At(values, 1), timestamps))

SyncRequestEncode(self) ==
    StructPack(CLOCK_SYNC_REQUEST_FORMAT, <<CLOCK_SYNC_REQUEST, self.t1>>)

SyncRequestDecode(data) ==
    IF Len(data) < CLOCK_SYNC_REQUEST_SIZE THEN Raises("length")
    ELSE
        LET values == StructUnpack(CLOCK_SYNC_REQUEST_FORMAT,
                                   Slice(data, 0, CLOCK_SYNC_REQUEST_SIZE))
        IN  Returns(ClockSyncRequest(At(values, 1)))

SyncResponseEncode(self) ==
    StructPack(CLOCK_SYNC_RESPONSE_FORMAT,
               <<CLOCK_SYNC_RESPONSE, self.t1, self.t2, self.t3>>)

SyncResponseDecode(data) ==
    IF Len(data) < CLOCK_SYNC_RESPONSE_SIZE THEN Raises("length")
    ELSE
        LET values == StructUnpack(CLOCK_SYNC_RESPONSE_FORMAT,
                                   Slice(data, 0, CLOCK_SYNC_RESPONSE_SIZE))
        IN  Returns(ClockSyncResponse(At(values, 1), At(values, 2), At(values, 3)))

(***************************************************************************)
(* main.py: ClockSync.  A float that is an integer over 2 is held as its   *)
(* floor w and its half h: the value w + h/2.                              *)
(***************************************************************************)
\* a / 2, Python's true division of an int by 2
PyTrueDiv2(a) == [w |-> a \div 2, h |-> a % 2]
\* the float of the int n
PyFloatOfInt(n) == [w |-> n, h |-> 0]
\* twice the float x, an integer
Twice(x) == 2 * x.w + x.h

\* sorted(s) of a list of ints: a sorted copy (insertion sort)
RECURSIVE Insert(_, _)
Insert(x, t) ==
    IF t = <<>> THEN <<x>>
    ELSE IF x <= Head(t) THEN <<x>> \o t
    ELSE <<Head(t)>> \o Insert(x, Tail(t))

RECURSIVE SortedInts(_)
SortedInts(s) == IF s = <<>> THEN <<>> ELSE Insert(Head(s), SortedInts(Tail(s)))

\* sorted(s) of a list of floats: they order as their doubles do
SortedFloats(s) ==
    LET doubled == SortedInts([i \in 1..Len(s) |-> Twice(s[i])])
    IN  [i \in 1..Len(s) |-> PyTrueDiv2(doubled[i])]

\* SampleOffset with floor division (// in place of /)
SampleOffset_Floor(t1, t2, t3, t4) == [w |-> ((t2 - t1) + (t3 - t4)) \div 2, h |-> 0]

\* rtt = (t4 - t1) - (t3 - t2)
SampleRtt(t1, t2, t3, t4) == (t4 - t1) - (t3 - t2)

\* offset = ((t2 - t1) + (t3 - t4)) / 2
SampleOffset(t1, t2, t3, t4) == PyTrueDiv2((t2 - t1) + (t3 - t4))

\* Retained dropping the newest element (pop() in place of pop(0))
Retained_PopLast(s, x, longer) ==
    IF longer THEN SubSeq(Append(s, x), 1, Len(s)) ELSE Append(s, x)

\* the lists after append and, when len(self._offsets) > self._max, pop(0)
Retained(s, x, longer) == IF longer THEN Tail(Append(s, x)) ELSE Append(s, x)

\* MedianOffset taking the lower middle of an even count
MedianOffset_LowerMiddle(s) == At(SortedFloats(s), (Len(s) - 1) \div 2)

\* sorted(self._offsets)[len(self._offsets) // 2]
MedianOffset(s) == At(SortedFloats(s), Len(s) \div 2)

\* sorted(self._rtts)[len(self._rtts) // 2]
MedianRtt(s) == At(SortedInts(s), Len(s) \div 2)

\* Synced counting exactly three samples
Synced_ExactlyThree == Len(offsets) = 3

\* ClockSync.synced
Synced == Len(offsets) >= 3

\* ProcessReturn handing back the stored median rtt (self.rtt in place of rtt)
ProcessReturn_StoredRtt(medianOffset, medianRtt, sampleRtt) == <<medianOffset, medianRtt>>

\* return self.offset, rtt
ProcessReturn(medianOffset, medianRtt, sampleRtt) == <<medianOffset, sampleRtt>>

NoReturn == <<PyFloatOfInt(0), 0>>

ClockSyncInit ==
    /\ cap \in 1..MaxCap
    /\ offsets = <<>>
    /\ rtts = <<>>
    /\ offset = PyFloatOfInt(0)
    /\ rtt = 0
    /\ calls = <<>>
    /\ ret = NoReturn

Process(t1, t2, t3, t4) ==
    LET rtt_ == SampleRtt(t1, t2, t3, t4)
        offset_ == SampleOffset(t1, t2, t3, t4)
        longer == Len(offsets) + 1 > cap
        offsets_ == Retained(offsets, offset_, longer)
        rtts_ == Retained(rtts, rtt_, longer)
    IN  /\ Len(calls) < MaxCalls
        /\ offsets' = offsets_
        /\ rtts' = rtts_
        /\ offset' = MedianOffset(offsets_)
        /\ rtt' = MedianRtt(rtts_)
        /\ ret' = ProcessReturn(offset', rtt', rtt_)
        /\ calls' = Append(calls, <<t1, t2, t3, t4>>)
        /\ UNCHANGED cap

(***************************************************************************)
(* main.py: Stats.  A deque is held as the sequence of its elements, oldest *)
(* first; an average is held as its numerator and denominator.             *)
(***************************************************************************)
\* DequeAppend that never evicts (a list in place of deque(maxlen=window))
DequeAppend_Unbounded(d, x, maxlen) == Append(d, x)

\* deque(maxlen=maxlen).append(x): a full deque drops its oldest element
DequeAppend(d, x, maxlen) ==
    IF maxlen = 0 THEN <<>>
    ELSE IF Len(d) = maxlen THEN Append(Tail(d), x)
    ELSE Append(d, x)

\* LatencyKept dropping a latency of 0 as well (> in place of >=)
LatencyKept_Positive(latency_ms) == latency_ms > 0

\* if latency_ms >= 0
LatencyKept(latency_ms) == latency_ms >= 0

RECURSIVE SumSeq(_)
\* sum(d)
SumSeq(d) == IF d = <<>> THEN 0 ELSE Head(d) + SumSeq(Tail(d))

\* Stats.avg(d): sum(d) / len(d) if d else 0
Avg(d) == IF d # <<>> THEN [num |-> SumSeq(d), den |-> Len(d)]
          ELSE [num |-> 0, den |-> 1]

StatsInit ==
    /\ latencies = <<>>
    /\ decode_us = <<>>
    /\ process_us = <<>>
    /\ encode_us = <<>>
    /\ rx_count = 0
    /\ ack_count = 0
    /\ records = <<>>

\* RxCountAfter with the count under the "if latency_ms >= 0"
RxCountAfter_IfKept(n, latency_ms) == IF latency_ms >= 0 THEN n + 1 ELSE n

\* self.rx_count += 1, whatever the latency
RxCountAfter(n, latency_ms) == n + 1

Record(latency_ms, decode, process, encode) ==
    /\ latencies' = IF LatencyKept(latency_ms)
                    THEN DequeAppend(latencies, latency_ms, window)
                    ELSE latencies
    /\ decode_us' = DequeAppend(decode_us, decode, window)
    /\ process_us' = DequeAppend(process_us, process, window)
    /\ encode_us' = DequeAppend(encode_us, encode, window)
    /\ rx_count' = RxCountAfter(rx_count, latency_ms)
    /\ records' = Append(records, [latency_ms |-> latency_ms, decode_us |-> decode,
                                   process_us |-> process, encode_us |-> encode])
    /\ UNCHANGED window

(***************************************************************************)
(* main.py: TwistClient.  connect() and close() run in one task, the       *)
(* receive loop and the sync loop in one task each; a task runs from one   *)
(* await to the next without interruption.  An await of send_bytes is a    *)
(* place where a task may stay: it goes on when the call returns or        *)
(* raises, or when the task is cancelled.  A frame counts as sent when its *)
(* send_bytes call returned.                                               *)
(***************************************************************************)
\* the value of the int held as the digits d
PyIntValue(d) == d[1] + 65536 * (d[2] + 65536 * (d[3] + 65536 * d[4]))

\* ClockSync(samples=10)
DefaultSamples == 10
\* Stats(window=100)
DefaultWindow == 100

\* perf_counter_us() differences: what decoding, processing and encoding took
PerfUs == [decode |-> 50, process |-> 100, encode |-> 30]

\* no Command is being handled
NoCur == [data |-> <<>>]

\* what is noted of a delivered message: the times read at its handling,
\* how its decoding went, what raised out of its handler, how its ack ended
Entry(f, rx_time) ==
    [frame |-> f, rx_time |-> rx_time, decode |-> "none", raised |-> "none",
     ack |-> "none", t4 |-> 0]

\* the last entry of handled, with its ack's end noted
AckEnded(how) == [handled EXCEPT ![Len(handled)].ack = how]

TwistClientInit ==
    /\ connected = FALSE
    /\ mainPc = "new"
    /\ recvPc = "none"
    /\ syncPc = "none"
    /\ cur = NoCur
    /\ ackSent = <<>>
    /\ syncLog = <<>>
    /\ handled = <<>>
    /\ now \in {1015}

\* TwistDecodeGuard without the try (the ValueError leaves _handle_twist)
TwistDecodeGuard_Unguarded(r) == IF r.ok THEN "decoded" ELSE "raised"

\* try: TwistWithLatency.decode(data) / except Exception: log it and return
TwistDecodeGuard(r) == IF r.ok THEN "decoded" ELSE "dropped"

\* try: ClockSyncResponse.decode(data), process / except Exception: log it
SyncDecodeGuard(r) == IF r.ok THEN "decoded" ELSE "dropped"

\* CallbackGuard without the try (the error leaves _handle_twist)
CallbackGuard_Unguarded(cb) == cb

\* try: self.on_twist(twist) / except Exception: log it
CallbackGuard(cb) == IF cb = "raised" THEN "logged" ELSE cb

\* self._ros2.publish(twist): no try around it
PublishCall(pb) == pb

\* AckFor naming the Command by its t1_browser_send
AckFor_StampAsId(twist) == TwistAck(twist.timestamps.t1_browser_send, twist.timestamps)

\* TwistAck(message_id=twist.message_id, timestamps=twist.timestamps)
AckFor(twist) == TwistAck(twist.message_id, twist.timestamps)

\* Received leaving t3_python_rx as decoded
Received_Unstamped(twist, rx_time) ==
    [twist EXCEPT !.timestamps.python_decode_us = PyInt(PerfUs.decode)]

\* twist.timestamps.t3_python_rx = rx_time; .python_decode_us = decode_us
Received(twist, rx_time) ==
    [twist EXCEPT !.timestamps.t3_python_rx = PyInt(rx_time),
                  !.timestamps.python_decode_us = PyInt(PerfUs.decode)]

\* AckCountAfter counting the attempt, whatever its end
AckCountAfter_Attempts(n, end) == n + 1

\* try: await send_bytes(data); self.stats.ack_count += 1 / except: log it
AckCountAfter(n, end) == IF end = "returned" THEN n + 1 ELSE n

\* RecvLoopFree with the handler started as a task of its own
RecvLoopFree_Spawned == recvPc \in {"wait", "send"}

\* async for msg in self._ws: the loop takes a message when the handling of
\* the one before has returned (await self._handle_binary(msg.data))
RecvLoopFree == recvPc = "wait"

\* IsConnected with no test of the flag
IsConnected_Always == TRUE

\* the property connected: self._connected and self._ws is not None (the
\* socket is there from connect() on)
IsConnected == connected

\* the handler returns to the loop, having changed nothing
Returned(e) ==
    /\ handled' = Append(handled, e)
    /\ UNCHANGED <<connected, mainPc, recvPc, syncPc, cur, ackSent, syncLog, now>>
    /\ UNCHANGED <<codecVars, clockVars, statsVars>>

\* ConnectedAfterRecvLoop with the flag left as it was
ConnectedAfterRecvLoop_Kept == connected

\* the last statement of _recv_loop: self._connected = False
ConnectedAfterRecvLoop == FALSE

\* an exception reaches _recv_loop: except Exception: log; self._connected = False
RecvLoopFails(e) ==
    /\ handled' = Append(handled, e)
    /\ connected' = ConnectedAfterRecvLoop
    /\ recvPc' = "done"
    /\ UNCHANGED <<mainPc, syncPc, cur, ackSent, syncLog, now>>
    /\ UNCHANGED <<codecVars, clockVars, statsVars>>

\* _handle_twist from "await self._send_ack(twist)" on, up to send_bytes
SendAck(twist, e, rx_time, cb, t4) ==
    IF ~IsConnected
    THEN \* _send_ack returns at once; the record has python_encode_us as decoded
         /\ Record(rx_time - PyIntValue(twist.timestamps.t1_browser_send),
                   PerfUs.decode, PerfUs.process,
                   PyIntValue(twist.timestamps.python_encode_us))
         /\ handled' = Append(handled, [e EXCEPT !.ack = "skipped"])
         /\ UNCHANGED <<connected, mainPc, recvPc, syncPc, cur, ackSent, syncLog, now>>
         /\ UNCHANGED ack_count
         /\ UNCHANGED <<codecVars, clockVars>>
    ELSE LET stamped ==
                 [twist EXCEPT !.timestamps.t4_python_ack = PyInt(t4),
                               !.timestamps.python_encode_us = PyInt(PerfUs.encode)]
         IN  /\ cur' = [twist |-> stamped, rx_time |-> rx_time, callback |-> cb,
                        data |-> AckEncode(AckFor(stamped))]
             /\ recvPc' = "send"
             /\ now' = t4
             /\ handled' = Append(handled, [e EXCEPT !.ack = "pending", !.t4 = t4])
             /\ UNCHANGED <<connected, mainPc, syncPc, ackSent, syncLog>>
             /\ UNCHANGED <<codecVars, clockVars, statsVars>>

\* _handle_twist up to the await of send_bytes: cb and pb are what the
\* on_twist callback and ROS2Publisher.publish do, t4 the time at the ack
HandleTwist(f, data, rx_time, cb, pb, t4) ==
    LET r == TwistDecode(data)
        e == Entry(f, rx_time)
    IN  IF TwistDecodeGuard(r) = "raised"
        THEN RecvLoopFails([e EXCEPT !.decode = "error", !.raised = "decode"])
        ELSE IF TwistDecodeGuard(r) = "dropped"
        THEN Returned([e EXCEPT !.decode = "error"])
        ELSE
            LET twist == [Received(r.msg, rx_time) EXCEPT
                              !.timestamps.python_process_us = PyInt(PerfUs.process)]
            IN  IF CallbackGuard(cb) = "raised"
                THEN RecvLoopFails([e EXCEPT !.decode = "ok", !.raised = "callback"])
                ELSE IF PublishCall(pb) = "raised"
                THEN RecvLoopFails([e EXCEPT !.decode = "ok", !.raised = "publish"])
                ELSE SendAck(twist, [e EXCEPT !.decode = "ok"], rx_time, cb, t4)

\* _handle_sync_response: t4 is the time it reads
HandleSyncResponse(f, data, rx_time, t4) ==
    LET r == SyncResponseDecode(data)
        e == [Entry(f, rx_time) EXCEPT !.t4 = t4]
    IN  IF SyncDecodeGuard(r) = "decoded"
        THEN /\ Process(PyIntValue(r.msg.t1), PyIntValue(r.msg.t2),
                        PyIntValue(r.msg.t3), t4)
             /\ handled' = Append(handled, [e EXCEPT !.decode = "ok"])
             /\ now' = t4
             /\ UNCHANGED <<connected, mainPc, recvPc, syncPc, cur, ackSent, syncLog>>
             /\ UNCHANGED <<codecVars, statsVars>>
        ELSE /\ handled' = Append(handled, [e EXCEPT !.decode = "error"])
             /\ now' = t4
             /\ UNCHANGED <<connected, mainPc, recvPc, syncPc, cur, ackSent, syncLog>>
             /\ UNCHANGED <<codecVars, clockVars, statsVars>>

\* Dispatch with an else in the place of the elif
Dispatch_ElseSync(msg_type) == IF msg_type = TWIST THEN "twist" ELSE "sync"

\* if msg_type == MessageType.TWIST: ... elif msg_type == CLOCK_SYNC_RESPONSE: ...
Dispatch(msg_type) ==
    IF msg_type = TWIST THEN "twist"
    ELSE IF msg_type = CLOCK_SYNC_RESPONSE THEN "sync"
    ELSE "none"

\* _handle_binary, up to its return or to the await of send_bytes
HandleBinary(f, data, cb, pb, t4) ==
    IF Len(data) < 1 THEN Returned(Entry(f, 0))
    ELSE IF Dispatch(data[1]) = "twist" THEN HandleTwist(f, data, now, cb, pb, t4)
    ELSE IF Dispatch(data[1]) = "sync" THEN HandleSyncResponse(f, data, now, t4)
    ELSE Returned(Entry(f, now))

\* _handle_twist after send_bytes returned or raised: the count, the record
AfterSend(end) ==
    /\ ack_count' = AckCountAfter(ack_count, end)
    /\ Record(cur.rx_time - PyIntValue(cur.twist.timestamps.t1_browser_send),
              PerfUs.decode, PerfUs.process,
              PyIntValue(cur.twist.timestamps.python_encode_us))
    /\ recvPc' = "wait"
    /\ cur' = NoCur
    /\ UNCHANGED <<connected, mainPc, syncPc, syncLog, now>>
    /\ UNCHANGED <<codecVars, clockVars>>

(***************************************************************************)
(* The codec's environment: the entities given to encode, and what happens *)
(* to a frame between encode and decode.                                   *)
(***************************************************************************)
Ids == {PyInt(12345), MaxQ}
Stamps == {PyInt(1000), PyInt(70000)}
Velocities == {<<F_0_0, F_1_5, F_0_0, F_0_0, F_0_0, F_m0_75>>,
               <<F_0_1, F_m0_75, F_1_5, F_0_0, F_big, F_0_1>>}
ExtWords == {PyInt(1001), <<258, 772, 1286, 1800>>}
TagBytes == {TWIST, TWIST_ACK, CLOCK_SYNC_REQUEST, CLOCK_SYNC_RESPONSE, 255}

RelayStamped(ts) ==
    [ts EXCEPT !.t2_relay_rx = PyInt(1005), !.t3_relay_tx = PyInt(1006),
               !.t4_relay_ack_rx = PyInt(1020), !.t5_relay_ack_tx = PyInt(1021)]

TwistInputs ==
    { TwistWithLatency(id, ts, v[1], v[2], v[3], v[4], v[5], v[6]) :
        id \in Ids, v \in Velocities,
        ts \in { [LatencyTimestamps EXCEPT !.t1_browser_send = PyInt(1000)],
                 RelayStamped([LatencyTimestamps EXCEPT !.t1_browser_send = PyInt(70000)]) } }

AckStamps ==
    [LatencyTimestamps EXCEPT !.t1_browser_send = PyInt(1000),
                              !.t2_relay_rx = PyInt(1005),
                              !.t3_relay_tx = PyInt(1006),
                              !.t3_python_rx = PyInt(1010),
                              !.t4_python_ack = PyInt(1015),
                              !.python_decode_us = PyInt(50),
                              !.python_process_us = PyInt(100),
                              !.python_encode_us = PyInt(30)]

AckInputs ==
    { TwistAck(id, ts) : id \in Ids, ts \in {AckStamps, RelayStamped(AckStamps)} }

SyncRequestInputs == { ClockSyncRequest(t) : t \in Stamps }

SyncResponseInputs ==
    { ClockSyncResponse(t, PyInt(1005), <<6, 5, 4, 3>>) : t \in Stamps }

BaseSize(kind) ==
    CASE kind = "Twist" -> TWIST_BROWSER_SIZE
      [] kind = "Ack" -> TWIST_ACK_PYTHON_SIZE
      [] kind = "Req" -> CLOCK_SYNC_REQUEST_SIZE
      [] kind = "Resp" -> CLOCK_SYNC_RESPONSE_SIZE

NotDecoded == [dec |-> "none", ok |-> FALSE, err |-> "none", msg |-> NoMsg]
Outcome(dec, r) == [dec |-> dec, ok |-> r.ok, err |-> r.err, msg |-> r.msg]

CodecInit ==
    /\ sent \in TwistInputs \cup AckInputs \cup SyncRequestInputs \cup SyncResponseInputs
    /\ wire = <<>>
    /\ stage = "new"
    /\ got = NotDecoded
    /\ cap = 1 /\ offsets = <<>> /\ rtts = <<>> /\ offset = PyFloatOfInt(0)
    /\ rtt = 0 /\ calls = <<>> /\ ret = NoReturn
    /\ window = 1 /\ StatsInit
    /\ TwistClientInit

Encode(kind, data) ==
    /\ stage = "new"
    /\ sent.kind = kind
    /\ wire' = data
    /\ stage' = "encoded"
    /\ UNCHANGED <<sent, got>>
    /\ UNCHANGED <<clockVars, statsVars, clientVars>>

EncodeTwist == Encode("Twist", TwistEncode(sent))
EncodeAck == Encode("Ack", AckEncode(sent))
EncodeSyncRequest == Encode("Req", SyncRequestEncode(sent))
EncodeSyncResponse == Encode("Resp", SyncResponseEncode(sent))

\* a relay appends an 8-byte little-endian timestamp to the frame
RelayAppend(w) ==
    /\ stage \in {"encoded", "extended"}
    /\ got.dec = "none"
    /\ Len(wire) < BaseSize(sent.kind) + 8 * MaxExtWords
    /\ wire' = wire \o StructPack(<<"Q">>, <<w>>)
    /\ stage' = "extended"
    /\ UNCHANGED <<sent, got>>
    /\ UNCHANGED <<clockVars, statsVars, clientVars>>

\* the frame loses its last byte
Truncate ==
    /\ stage # "new"
    /\ got.dec = "none"
    /\ Len(wire) > 0
    /\ wire' = SubSeq(wire, 1, Len(wire) - 1)
    /\ stage' = "altered"
    /\ UNCHANGED <<sent, got>>
    /\ UNCHANGED <<clockVars, statsVars, clientVars>>

\* the frame's leading byte is another one
Retag(b) ==
    /\ stage # "new"
    /\ got.dec = "none"
    /\ Len(wire) > 0
    /\ wire[1] # b
    /\ wire' = [wire EXCEPT ![1] = b]
    /\ stage' = "altered"
    /\ UNCHANGED <<sent, got>>
    /\ UNCHANGED <<clockVars, statsVars, clientVars>>

Decode(dec, r) ==
    /\ stage # "new"
    /\ got.dec = "none"
    /\ got' = Outcome(dec, r)
    /\ UNCHANGED <<sent, wire, stage>>
    /\ UNCHANGED <<clockVars, statsVars, clientVars>>

DecodeTwist == Decode("Twist", TwistDecode(wire))
DecodeAck == Decode("Ack", AckDecode(wire))
DecodeSyncRequest == Decode("Req", SyncRequestDecode(wire))
DecodeSyncResponse == Decode("Resp", SyncResponseDecode(wire))

CodecNext ==
    \/ EncodeTwist
    \/ EncodeAck
    \/ EncodeSyncRequest
    \/ EncodeSyncResponse
    \/ \E w \in ExtWords : RelayAppend(w)
    \/ Truncate
    \/ \E b \in TagBytes : Retag(b)
    \/ DecodeTwist
    \/ DecodeAck
    \/ DecodeSyncRequest
    \/ DecodeSyncResponse

SpecCodec == CodecInit /\ [][CodecNext]_vars

(***************************************************************************)
(* The clock's environment: the four timestamps of a sync exchange.        *)
(***************************************************************************)
T1s == {1000}
T2s == {1010, 1003}
T3s == {1012}
T4s == {1005, 1020}

ClockInit ==
    /\ ClockSyncInit
    /\ sent = NoMsg /\ wire = <<>> /\ stage = "new" /\ got = NotDecoded
    /\ window = 1 /\ StatsInit
    /\ TwistClientInit

ProcessCall ==
    /\ \E t1 \in T1s, t2 \in T2s, t3 \in T3s, t4 \in T4s : Process(t1, t2, t3, t4)
    /\ UNCHANGED <<codecVars, statsVars, clientVars>>

ClockNext == ProcessCall

SpecClock == ClockInit /\ [][ClockNext]_vars

(***************************************************************************)
(* The environment of Stats: the measurements of handled Commands.         *)
(***************************************************************************)
LatenciesMs == {-5, 0, 7}
DecodesUs == {40, 41}
ProcessesUs == {100}
EncodesUs == {30}

RecordInit ==
    /\ window \in 1..MaxWindow
    /\ StatsInit
    /\ sent = NoMsg /\ wire = <<>> /\ stage = "new" /\ got = NotDecoded
    /\ cap = 1 /\ offsets = <<>> /\ rtts = <<>> /\ offset = PyFloatOfInt(0)
    /\ rtt = 0 /\ calls = <<>> /\ ret = NoReturn
    /\ TwistClientInit

RecordCall ==
    /\ Len(records) < MaxRecords
    /\ \E l \in LatenciesMs, d \in DecodesUs, p \in ProcessesUs, e \in EncodesUs :
           Record(l, d, p, e)
    /\ UNCHANGED ack_count
    /\ UNCHANGED <<codecVars, clockVars, clientVars>>

StatsNext == RecordCall

SpecStats == RecordInit /\ [][StatsNext]_vars

(***************************************************************************)
(* The client's environment: the messages the transport delivers, what the *)
(* callback, the publisher and send_bytes do, and the passing of time.     *)
(***************************************************************************)
CmdA ==
    TwistWithLatency(PyInt(12345),
                     [LatencyTimestamps EXCEPT !.t1_browser_send = PyInt(1000)],
                     F_0_0, F_1_5, F_0_0, F_0_0, F_0_0, F_m0_75)
CmdB ==
    TwistWithLatency(MaxQ,
                     [LatencyTimestamps EXCEPT !.t1_browser_send = PyInt(70000)],
                     F_0_1, F_m0_75, F_1_5, F_0_0, F_big, F_0_1)
RespA == ClockSyncResponse(PyInt(1000), PyInt(1010), PyInt(1012))
RespB == ClockSyncResponse(PyInt(1001), PyInt(1003), PyInt(1004))

\* the binary frames by name: two Commands (the second as a relay extends
\* it), a Command cut short, two sync responses, one cut short, an
\* acknowledgment (0x02), a sync request (0x03), a frame of an unknown tag,
\* and the frame of no bytes
Frames ==
    [cmdA |-> TwistEncode(CmdA),
     cmdB |-> TwistEncode(CmdB) \o StructPack(<<"Q", "Q">>, <<PyInt(1005), PyInt(1006)>>),
     cmdShort |-> SubSeq(TwistEncode(CmdA), 1, TWIST_BROWSER_SIZE - 1),
     respA |-> SyncResponseEncode(RespA),
     respB |-> SyncResponseEncode(RespB),
     respShort |-> SubSeq(SyncResponseEncode(RespA), 1, CLOCK_SYNC_RESPONSE_SIZE - 1),
     ack |-> AckEncode(TwistAck(PyInt(12345), AckStamps)),
     req |-> SyncRequestEncode(ClockSyncRequest(PyInt(1000))),
     unknown |-> <<255>>,
     empty |-> <<>>]

FrameNames == DOMAIN Frames

FrameData(f) == Frames[f]

\* what a call of the callback or of the publisher does
CallOutcomes == {"returned", "raised"}

\* the times current_time_ms() may return next: the clock never steps back
LaterTimes == {now, now + 1}

\* the task was not cancelled while it stayed at its await
RecvNotCancelled == mainPc # "closing_recv"
SyncNotCancelled == mainPc # "closing_sync"

\* _recv_loop takes a BINARY message
ReceiveBinary(f) ==
    /\ RecvLoopFree
    /\ RecvNotCancelled
    /\ Len(handled) < MaxFrames
    /\ \E cb \in CallOutcomes, pb \in CallOutcomes, t4 \in LaterTimes :
           HandleBinary(f, FrameData(f), cb, pb, t4)

\* _recv_loop takes a TEXT message: pass
ReceiveText ==
    /\ RecvLoopFree
    /\ RecvNotCancelled
    /\ Len(handled) < MaxFrames
    /\ Returned(Entry("text", 0))

\* _recv_loop takes a CLOSE or CLOSED message, or the iteration ends or
\* raises: the loop is left and self._connected = False
ReceiveClose ==
    /\ RecvLoopFree
    /\ RecvNotCancelled
    /\ Len(handled) < MaxFrames
    /\ RecvLoopFails(Entry("close", 0))

\* send_bytes(data) of _send_ack returns
SendAckReturns ==
    /\ recvPc = "send"
    /\ RecvNotCancelled
    /\ ackSent' = Append(ackSent, cur.data)
    /\ handled' = AckEnded("sent")
    /\ AfterSend("returned")

\* send_bytes(data) of _send_ack raises
SendAckRaises ==
    /\ recvPc = "send"
    /\ RecvNotCancelled
    /\ handled' = AckEnded("failed")
    /\ AfterSend("raised")
    /\ UNCHANGED ackSent

\* a sync request is given to send_bytes
SyncRequested(by) == Append(syncLog, [by |-> by, end |-> "pending"])
\* the sync request that by awaits
PendingSync(by) ==
    CHOOSE i \in 1..Len(syncLog) : syncLog[i].by = by /\ syncLog[i].end = "pending"
SyncEnded(by, end) == [syncLog EXCEPT ![PendingSync(by)].end = end]

\* connect() up to the await in its _send_sync
Connect ==
    /\ mainPc = "new"
    /\ connected' = TRUE
    /\ recvPc' = "wait"
    /\ syncPc' = "sleep"
    /\ syncLog' = SyncRequested("connect")
    /\ mainPc' = "sync"
    /\ UNCHANGED <<cur, ackSent, handled, now>>
    /\ UNCHANGED <<codecVars, clockVars, statsVars>>

\* connect() raises before it is connected: _cleanup, return False
ConnectFails ==
    /\ mainPc = "new"
    /\ mainPc' = "failed"
    /\ UNCHANGED <<connected, recvPc, syncPc, cur, ackSent, syncLog, handled, now>>
    /\ UNCHANGED <<codecVars, clockVars, statsVars>>

\* the send_bytes of connect()'s _send_sync returns or raises
ConnectSyncEnds(end) ==
    /\ mainPc = "sync"
    /\ syncLog' = SyncEnded("connect", end)
    /\ mainPc' = "up"
    /\ UNCHANGED <<connected, recvPc, syncPc, cur, ackSent, handled, now>>
    /\ UNCHANGED <<codecVars, clockVars, statsVars>>

\* _sync_loop: the sleep is over and _send_sync runs up to its await, or
\* returns at once and the loop ends, the client being not connected
SyncWake ==
    /\ syncPc = "sleep"
    /\ SyncNotCancelled
    /\ IF IsConnected
       THEN /\ Cardinality({i \in 1..Len(syncLog) : syncLog[i].by = "loop"}) < MaxSyncs
            /\ syncLog' = SyncRequested("loop")
            /\ syncPc' = "send"
       ELSE /\ syncPc' = "done"
            /\ UNCHANGED syncLog
    /\ UNCHANGED <<connected, mainPc, recvPc, cur, ackSent, handled, now>>
    /\ UNCHANGED <<codecVars, clockVars, statsVars>>

\* the send_bytes of the loop's _send_sync returns or raises; while self.connected
SyncSendEnds(end) ==
    /\ syncPc = "send"
    /\ SyncNotCancelled
    /\ syncLog' = SyncEnded("loop", end)
    /\ syncPc' = IF IsConnected THEN "sleep" ELSE "done"
    /\ UNCHANGED <<connected, mainPc, recvPc, cur, ackSent, handled, now>>
    /\ UNCHANGED <<codecVars, clockVars, statsVars>>

\* _cleanup from the cancelling of the sync task on: awaiting a task that is
\* over does not suspend
AfterRecvTask == IF syncPc \in {"sleep", "send"} THEN "closing_sync" ELSE "closed"

\* close(): self._connected = False, and _cleanup cancels the receive task
Close ==
    /\ mainPc = "up"
    /\ connected' = FALSE
    /\ mainPc' = IF recvPc \in {"wait", "send"} THEN "closing_recv" ELSE AfterRecvTask
    /\ UNCHANGED <<recvPc, syncPc, cur, ackSent, syncLog, handled, now>>
    /\ UNCHANGED <<codecVars, clockVars, statsVars>>

\* the receive task gets CancelledError at its await: pass, _connected = False
RecvCancelled ==
    /\ mainPc = "closing_recv"
    /\ recvPc \in {"wait", "send"}
    /\ recvPc' = "done"
    /\ connected' = ConnectedAfterRecvLoop
    /\ cur' = NoCur
    /\ handled' = IF recvPc = "send" THEN AckEnded("cancelled") ELSE handled
    /\ UNCHANGED <<mainPc, syncPc, ackSent, syncLog, now>>
    /\ UNCHANGED <<codecVars, clockVars, statsVars>>

\* _cleanup: the receive task is over, the sync task is cancelled
CancelSync ==
    /\ mainPc = "closing_recv"
    /\ recvPc = "done"
    /\ mainPc' = AfterRecvTask
    /\ UNCHANGED <<connected, recvPc, syncPc, cur, ackSent, syncLog, handled, now>>
    /\ UNCHANGED <<codecVars, clockVars, statsVars>>

\* the sync task gets CancelledError at its await: pass
SyncCancelled ==
    /\ mainPc = "closing_sync"
    /\ syncPc \in {"sleep", "send"}
    /\ syncPc' = "done"
    /\ syncLog' = IF syncPc = "send" THEN SyncEnded("loop", "cancelled") ELSE syncLog
    /\ UNCHANGED <<connected, mainPc, recvPc, cur, ackSent, handled, now>>
    /\ UNCHANGED <<codecVars, clockVars, statsVars>>

\* _cleanup: both tasks are over; the socket and the session are closed
Closed ==
    /\ mainPc = "closing_sync"
    /\ syncPc = "done"
    /\ mainPc' = "closed"
    /\ UNCHANGED <<connected, recvPc, syncPc, cur, ackSent, syncLog, handled, now>>
    /\ UNCHANGED <<codecVars, clockVars, statsVars>>

ClientInit ==
    /\ TwistClientInit
    /\ sent = NoMsg /\ wire = <<>> /\ stage = "new" /\ got = NotDecoded
    /\ cap = DefaultSamples /\ offsets = <<>> /\ rtts = <<>>
    /\ offset = PyFloatOfInt(0) /\ rtt = 0 /\ calls = <<>> /\ ret = NoReturn
    /\ window = DefaultWindow /\ StatsInit

ClientNext ==
    \/ Connect
    \/ ConnectFails
    \/ \E end \in CallOutcomes : ConnectSyncEnds(end)
    \/ \E f \in FrameNames : ReceiveBinary(f)
    \/ ReceiveText
    \/ ReceiveClose
    \/ SendAckReturns
    \/ SendAckRaises
    \/ SyncWake
    \/ \E end \in CallOutcomes : SyncSendEnds(end)
    \/ Close
    \/ RecvCancelled
    \/ CancelSync
    \/ SyncCancelled
    \/ Closed

SpecClient == ClientInit /\ [][ClientNext]_vars

\* the steps of the sync task: the event loop resumes it when its sleep is
\* over, when its send_bytes has returned or raised, or when it is cancelled
SyncTask ==
    \/ SyncWake
    \/ \E end \in CallOutcomes : SyncSendEnds(end)
    \/ SyncCancelled

\* the client with a sync task that is not left waiting for ever: its timer
\* fires and its send_bytes ends
SpecClientLive == ClientInit /\ [][ClientNext]_vars /\ WF_vars(SyncTask)

(***************************************************************************)
(* Properties of the codec, checked under SpecCodec.                       *)
(***************************************************************************)
\* the little-endian 64-bit value held by bytes a .. a+7 of the frame (0-based)
WireQ(a) == <<wire[a + 1] + 256 * wire[a + 2], wire[a + 3] + 256 * wire[a + 4],
              wire[a + 5] + 256 * wire[a + 6], wire[a + 7] + 256 * wire[a + 8]>>

\* the frame is what encode produced, plus whole words a relay appended
Intact == stage \in {"encoded", "extended"}

SameAckFields(a, b) ==
    /\ a.message_id = b.message_id
    /\ a.timestamps.t1_browser_send = b.timestamps.t1_browser_send
    /\ a.timestamps.t2_relay_rx = b.timestamps.t2_relay_rx
    /\ a.timestamps.t3_relay_tx = b.timestamps.t3_relay_tx
    /\ a.timestamps.t3_python_rx = b.timestamps.t3_python_rx
    /\ a.timestamps.t4_python_ack = b.timestamps.t4_python_ack
    /\ a.timestamps.python_decode_us = b.timestamps.python_decode_us
    /\ a.timestamps.python_process_us = b.timestamps.python_process_us
    /\ a.timestamps.python_encode_us = b.timestamps.python_encode_us

SameBaseFields(a, b) ==
    /\ a.message_id = b.message_id
    /\ a.timestamps.t1_browser_send = b.timestamps.t1_browser_send
    /\ a.linear_x = b.linear_x
    /\ a.linear_y = b.linear_y
    /\ a.linear_z = b.linear_z
    /\ a.angular_x = b.angular_x
    /\ a.angular_y = b.angular_y
    /\ a.angular_z = b.angular_z

\* C1: Ack round trip.  TwistAck.decode of the 69 bytes a.encode() produced
\* returns a's message_id, t1_browser_send, t2_relay_rx, t3_relay_tx,
\* t3_python_rx, t4_python_ack and the three durations, with t5_relay_ack_tx
\* at 0; with one 8-byte value appended (77 bytes) it returns the same fields
\* and t5_relay_ack_tx equal to the appended value.
C1_AckRoundTrip ==
    (got.dec = "Ack" /\ sent.kind = "Ack" /\ Intact /\ Len(wire) \in {69, 77}) =>
        /\ got.ok
        /\ SameAckFields(got.msg, sent)
        /\ Len(wire) = 69 => got.msg.timestamps.t5_relay_ack_tx = Zero
        /\ Len(wire) = 77 => got.msg.timestamps.t5_relay_ack_tx = WireQ(69)

\* C2: Command round trip.  TwistWithLatency.decode of the 65 bytes c.encode()
\* produced returns c's message_id, t1_browser_send and six velocities, each
\* velocity in the field it was given in, with t2_relay_rx and t3_relay_tx 0.
C2_CommandRoundTrip ==
    (got.dec = "Twist" /\ sent.kind = "Twist" /\ stage = "encoded") =>
        /\ got.ok
        /\ SameBaseFields(got.msg, sent)
        /\ got.msg.timestamps.t2_relay_rx = Zero
        /\ got.msg.timestamps.t3_relay_tx = Zero

\* a Command whose own t2/t3 were set and whose velocities differ from
\* field to field has gone through encode and decode
C2_Witness ==
    /\ got.dec = "Twist" /\ sent.kind = "Twist" /\ stage = "encoded"
    /\ got.ok
    /\ sent.timestamps.t2_relay_rx # Zero
    /\ sent.message_id = MaxQ
    /\ sent.linear_x # sent.linear_y /\ sent.linear_y # sent.linear_z
    /\ sent.angular_y # sent.angular_z

\* C3: Length-tiered Command decode.  For a frame that starts with 0x01 and
\* has at least 65 bytes, TwistWithLatency.decode succeeds and returns the base
\* fields of the frame's first 65 bytes whatever the length (for a frame that
\* is an encoded Command plus appended words: the Command's fields); with 81
\* bytes or more t2_relay_rx and t3_relay_tx are the values of bytes 65..72
\* and 73..80, and with 65 to 80 bytes both are 0.
C3_LengthTiered ==
    (got.dec = "Twist" /\ Len(wire) >= 65 /\ wire[1] = 1) =>
        /\ got.ok
        /\ got.msg.message_id = WireQ(1)
        /\ got.msg.timestamps.t1_browser_send = WireQ(9)
        /\ SameBaseFields(got.msg, TwistDecode(SubSeq(wire, 1, 65)).msg)
        /\ (sent.kind = "Twist" /\ Intact) => SameBaseFields(got.msg, sent)
        /\ Len(wire) >= 81 => /\ got.msg.timestamps.t2_relay_rx = WireQ(65)
                              /\ got.msg.timestamps.t3_relay_tx = WireQ(73)
        /\ Len(wire) <= 80 => /\ got.msg.timestamps.t2_relay_rx = Zero
                              /\ got.msg.timestamps.t3_relay_tx = Zero

\* an encoded Command with exactly two words appended (81 bytes) was decoded
\* and the two words, which differ, came back as t2 and t3
C3_Witness ==
    /\ got.dec = "Twist" /\ sent.kind = "Twist" /\ Intact
    /\ Len(wire) = 81
    /\ got.ok
    /\ got.msg.timestamps.t2_relay_rx = PyInt(1001)
    /\ got.msg.timestamps.t3_relay_tx = <<258, 772, 1286, 1800>>

\* C4: Truncation rejection.  Each decoder, given a frame shorter than its
\* kind's base size (65, 69, 9, 25), raises the size check's error and returns
\* no message, whatever the leading byte.
C4_BaseSize(dec) ==
    CASE dec = "Twist" -> 65
      [] dec = "Ack" -> 69
      [] dec = "Req" -> 9
      [] dec = "Resp" -> 25

C4_TruncationRejected ==
    (got.dec # "none" /\ Len(wire) < C4_BaseSize(got.dec)) =>
        /\ ~got.ok
        /\ got.err = "length"
        /\ got.msg = NoMsg

\* a 64-byte frame with a tag other than 0x01 was given to the Command decoder
C4_Witness ==
    /\ got.dec = "Twist"
    /\ Len(wire) = 64
    /\ wire[1] = 255
    /\ ~got.ok

\* C5: Type-mismatch rejection.  Each decoder, given a frame of at least its
\* kind's base size whose leading byte is not its kind's tag, raises the
\* type check's error and returns no message.
C5_Tag(dec) ==
    CASE dec = "Twist" -> 1
      [] dec = "Ack" -> 2
      [] dec = "Req" -> 3
      [] dec = "Resp" -> 4

C5_TypeMismatchRejected ==
    (got.dec # "none" /\ Len(wire) >= C4_BaseSize(got.dec)
                      /\ wire[1] # C5_Tag(got.dec)) =>
        /\ ~got.ok
        /\ got.err = "type"
        /\ got.msg = NoMsg

\* C6: Encode shape.  encode produces exactly 65, 69, 9 or 25 bytes for a
\* Command, CommandAck, ClockSyncRequest or ClockSyncResponse, the first byte
\* being 0x01, 0x02, 0x03 or 0x04, also when the entity's relay timestamps
\* (t2_relay_rx, t3_relay_tx, t4_relay_ack_rx, t5_relay_ack_tx) are set.
C6_EncodeShape ==
    stage = "encoded" =>
        /\ Len(wire) = C4_BaseSize(sent.kind)
        /\ wire[1] = C5_Tag(sent.kind)

\* a CommandAck whose t4_relay_ack_rx and t5_relay_ack_tx are set was encoded
C6_Witness ==
    /\ stage = "encoded"
    /\ sent.kind = "Ack"
    /\ sent.timestamps.t4_relay_ack_rx # Zero
    /\ sent.timestamps.t5_relay_ack_tx # Zero
    /\ Len(wire) = 69

(***************************************************************************)
(* Properties of ClockSync, checked under SpecClock.                       *)
(***************************************************************************)
LastCall == calls[Len(calls)]
\* the (t1, t2, t3, t4) whose sample is retained at position i
CallOfSample(i) == calls[Len(calls) - Len(offsets) + i]
\* the retained offsets doubled: integers
OffsetsDoubled == [i \in 1..Len(offsets) |-> Twice(offsets[i])]
\* m is an element of the integers s with at most k elements of s below it
\* and more than k elements of s not above it: the element at index k
\* (0-based) of s in ascending order
AtRank(m, s, k) ==
    /\ \E i \in 1..Len(s) : s[i] = m
    /\ Cardinality({i \in 1..Len(s) : s[i] < m}) <= k
    /\ Cardinality({i \in 1..Len(s) : s[i] <= m}) > k

\* C7: Clock sync arithmetic.  The sample process records for (t1, t2, t3, t4)
\* has rtt = (t4 - t1) - (t3 - t2) and offset = ((t2 - t1) + (t3 - t4)) / 2
\* with the half kept; (1000, 1010, 1012, 1005) gives rtt 3 and offset 8.5.
C7_SampleArithmetic ==
    calls # <<>> =>
        LET t1 == LastCall[1]
            t2 == LastCall[2]
            t3 == LastCall[3]
            t4 == LastCall[4]
            o == offsets[Len(offsets)]
        IN  /\ rtts[Len(rtts)] = (t4 - t1) - (t3 - t2)
            /\ o.h \in {0, 1}
            /\ 2 * o.w + o.h = (t2 - t1) + (t3 - t4)
            /\ LastCall = <<1000, 1010, 1012, 1005>> =>
                   /\ rtts[Len(rtts)] = 3
                   /\ o = [w |-> 8, h |-> 1]

\* the exchange (1000, 1010, 1012, 1005) was processed: rtt 3, offset 8 + 1/2
C7_Witness ==
    /\ calls # <<>>
    /\ LastCall = <<1000, 1010, 1012, 1005>>
    /\ rtts[Len(rtts)] = 3
    /\ offsets[Len(offsets)] = [w |-> 8, h |-> 1]

\* C8 as stated: after every process call, offset and rtt are the medians of
\* the retained offsets and rtts, the lower-middle element of the sorted
\* samples when their number is even.
C8_LowerMiddleMedian ==
    calls # <<>> =>
        /\ AtRank(Twice(offset), OffsetsDoubled, (Len(offsets) - 1) \div 2)
        /\ AtRank(rtt, rtts, (Len(rtts) - 1) \div 2)

\* C8 as amended: after every process call, offset and rtt are the elements
\* at index n // 2 of the sorted retained offsets and rtts (n samples): the
\* middle one when n is odd, the upper-middle one when n is even.
C8_UpperMiddleMedian ==
    calls # <<>> =>
        /\ offset.h \in {0, 1}
        /\ AtRank(Twice(offset), OffsetsDoubled, Len(offsets) \div 2)
        /\ AtRank(rtt, rtts, Len(rtts) \div 2)

\* four samples are retained, all different, and the stored medians are the
\* third smallest offset and the third smallest rtt
C8_Witness ==
    /\ Len(offsets) = 4
    /\ \A i, j \in 1..4 : i # j => offsets[i] # offsets[j] /\ rtts[i] # rtts[j]
    /\ Cardinality({i \in 1..4 : Twice(offsets[i]) < Twice(offset)}) = 2
    /\ Cardinality({i \in 1..4 : rtts[i] < rtt}) = 2

\* C9: FIFO eviction.  After k process calls on a synchronizer of capacity
\* N >= 1 the retained offsets and rtts are those of the last min(k, N) calls,
\* in call order and paired by call, and the stored medians are medians of
\* those samples alone.
C9_FifoEviction ==
    LET k == Len(calls)
        n == IF k < cap THEN k ELSE cap
    IN  /\ Len(offsets) = n
        /\ Len(rtts) = n
        /\ \A i \in 1..n :
               LET c == calls[k - n + i]
               IN  /\ Twice(offsets[i]) = (c[2] - c[1]) + (c[3] - c[4])
                   /\ rtts[i] = (c[4] - c[1]) - (c[3] - c[2])
        /\ k > 0 =>
               LET recentOffsets ==
                       [i \in 1..n |-> LET c == calls[k - n + i]
                                       IN  (c[2] - c[1]) + (c[3] - c[4])]
                   recentRtts ==
                       [i \in 1..n |-> LET c == calls[k - n + i]
                                       IN  (c[4] - c[1]) - (c[3] - c[2])]
               IN  /\ AtRank(Twice(offset), recentOffsets, n \div 2)
                   /\ AtRank(rtt, recentRtts, n \div 2)

\* more calls than the capacity (of at least 2) were made, and the first
\* call's exchange is none of the retained ones
C9_Witness ==
    /\ cap >= 2
    /\ Len(calls) > cap
    /\ Len(offsets) = cap
    /\ \A i \in 1..Len(offsets) : CallOfSample(i) # calls[1]

\* C10 as stated: whatever the capacity, synced is false after 0, 1 or 2
\* process calls and true after the 3rd and every later call.
C10_SyncedAnyCapacity ==
    Synced <=> Len(calls) >= 3

SyncedThreshold ==
    /\ cap >= 3 => (Synced <=> Len(calls) >= 3)
    /\ cap < 3 => ~Synced

\* C10 as amended: for a capacity of at least 3, synced is false after 0, 1
\* or 2 process calls, true after the 3rd call, and once true it is true
\* after every later call; for a capacity below 3 it is never true.
C10_SyncedMonotone ==
    /\ SyncedThreshold
    /\ [][SyncedThreshold' /\ (Synced => Synced')]_vars

\* a synchronizer of capacity 3 has evicted samples (5 calls) and is synced
C10_Witness ==
    /\ cap = 3
    /\ Len(calls) = 5
    /\ Synced

\* C11: process return value.  Every process call returns the pair (median
\* offset over the retained samples including this call's, this call's own
\* raw rtt) while the stored rtt is the median rtt; the returned rtt equals
\* the stored rtt only when this call's rtt is the median of the retained rtts.
C11_ProcessReturn ==
    calls # <<>> =>
        LET c == LastCall
            raw == (c[4] - c[1]) - (c[3] - c[2])
        IN  /\ ret[1] = offset
            /\ AtRank(Twice(ret[1]), OffsetsDoubled, Len(offsets) \div 2)
            /\ Twice(offsets[Len(offsets)]) = (c[2] - c[1]) + (c[3] - c[4])
            /\ ret[2] = raw
            /\ rtts[Len(rtts)] = raw
            /\ AtRank(rtt, rtts, Len(rtts) \div 2)
            /\ ret[2] = rtt => AtRank(raw, rtts, Len(rtts) \div 2)

\* three samples are retained and the last call returned its own rtt, which
\* is the smallest of the three and so differs from the stored median rtt
C11_Witness ==
    /\ Len(rtts) = 3
    /\ ret[2] = rtts[3]
    /\ ret[2] < rtts[1] /\ ret[2] < rtts[2]
    /\ ret[2] # rtt
    /\ ret[1] = offset

(***************************************************************************)
(* Properties of Stats, checked under SpecStats.                           *)
(***************************************************************************)
Min(a, b) == IF a < b THEN a ELSE b
\* the last k elements of s
LastOf(s, k) == SubSeq(s, Len(s) - k + 1, Len(s))
\* what the record calls so far were given as argument f, in call order
Recorded(f) == [i \in 1..Len(records) |-> records[i][f]]
\* the non-negative elements of s, in order
NonNegative(s) == LET Kept(x) == x >= 0 IN SelectSeq(s, Kept)

\* C12: Stats windowing.  For a Stats of capacity W, after n record calls each
\* duration window holds the last min(n, W) values given for it, in order, so
\* every duration average is the average of those values alone; the latency
\* window holds the last min(m, W) of the m non-negative latencies given, in
\* order, whatever the duration windows evicted.
C12_Windowing ==
    LET n == Len(records)
        k == Min(n, window)
        given == NonNegative(Recorded("latency_ms"))
    IN  /\ decode_us = LastOf(Recorded("decode_us"), k)
        /\ process_us = LastOf(Recorded("process_us"), k)
        /\ encode_us = LastOf(Recorded("encode_us"), k)
        /\ latencies = LastOf(given, Min(Len(given), window))
        /\ n > 0 =>
               /\ Avg(decode_us) = [num |-> SumSeq(LastOf(Recorded("decode_us"), k)), den |-> k]
               /\ Avg(process_us) = [num |-> SumSeq(LastOf(Recorded("process_us"), k)), den |-> k]
               /\ Avg(encode_us) = [num |-> SumSeq(LastOf(Recorded("encode_us"), k)), den |-> k]

\* W + 1 records were made on a Stats of capacity W >= 2: the decode window
\* is full and has lost the first record's value, which differs from all it
\* holds, while the latency window, which skipped a negative latency, still
\* holds the first record's latency
C12_Witness ==
    /\ window >= 2
    /\ Len(records) = window + 1
    /\ Len(decode_us) = window
    /\ \A i \in 1..Len(decode_us) : decode_us[i] # records[1].decode_us
    /\ Avg(decode_us).num = window * decode_us[1]
    /\ Len(latencies) = window
    /\ latencies[1] = records[1].latency_ms
    /\ latencies[1] # latencies[2]

\* new is old with x appended, the oldest element dropped if old was full
C13_Appended(old, new, x) ==
    \/ Len(old) < window /\ new = Append(old, x)
    \/ Len(old) = window /\ new = Append(Tail(old), x)

\* C13: negative latency handling.  A record call with latency_ms < 0 leaves
\* the latency window unchanged, appends decode_us, process_us and encode_us
\* to their windows and increments rx_count by one; a call with
\* latency_ms >= 0, 0 included, appends to all four windows.
C13_NegativeLatency ==
    [][records' # records =>
          LET r == records'[Len(records')]
          IN  /\ r.latency_ms < 0 => latencies' = latencies
              /\ r.latency_ms >= 0 => C13_Appended(latencies, latencies', r.latency_ms)
              /\ C13_Appended(decode_us, decode_us', r.decode_us)
              /\ C13_Appended(process_us, process_us', r.process_us)
              /\ C13_Appended(encode_us, encode_us', r.encode_us)
              /\ rx_count' = rx_count + 1]_vars

\* the last record had a negative latency and the one before it latency 0:
\* the latency window ends with that 0 and is shorter than the decode window,
\* and both records were counted
C13_Witness ==
    /\ Len(records) = 2
    /\ records[1].latency_ms = 0
    /\ records[2].latency_ms < 0
    /\ latencies = <<0>>
    /\ decode_us = <<records[1].decode_us, records[2].decode_us>>
    /\ rx_count = 2

(***************************************************************************)
(* Properties of TwistClient, checked under SpecClient.                    *)
(***************************************************************************)
LastEntry == handled[Len(handled)]
\* a message was delivered in this step; it is the last entry of handled'
Delivered == Len(handled') > Len(handled)
NewEntry == handled'[Len(handled')]
\* the bytes of the delivered message f (none for TEXT and CLOSE)
BytesOf(f) == IF f \in FrameNames THEN FrameData(f) ELSE <<>>
HasTag(f, tag) == BytesOf(f) # <<>> /\ BytesOf(f)[1] = tag
\* f is a Command frame that TwistWithLatency.decode accepts
GoodCommand(f) == HasTag(f, 1) /\ Len(BytesOf(f)) >= 65
\* f is a ClockSyncResponse frame that ClockSyncResponse.decode accepts
GoodSyncResponse(f) == HasTag(f, 4) /\ Len(BytesOf(f)) >= 25
\* f is a Command or ClockSyncResponse frame too short for its tag
BadFrame(f) ==
    \/ HasTag(f, 1) /\ Len(BytesOf(f)) < 65
    \/ HasTag(f, 4) /\ Len(BytesOf(f)) < 25
\* the little-endian 64-bit value held by bytes a .. a+7 of data (0-based)
FrameQ(data, a) ==
    <<data[a + 1] + 256 * data[a + 2], data[a + 3] + 256 * data[a + 4],
      data[a + 5] + 256 * data[a + 6], data[a + 7] + 256 * data[a + 8]>>
\* the entries of the Commands whose ack's send_bytes returned, in order
AckedEntries == LET Acked(e) == e.ack = "sent" IN SelectSeq(handled, Acked)
\* the entries of the sync responses that were decoded, in order
SampledEntries ==
    LET Sampled(e) == GoodSyncResponse(e.frame) IN SelectSeq(handled, Sampled)

\* C14: actuation failure does not block the ack.  If ROS2Publisher.publish
\* raises while a decoded Command is handled on a connected client, the ack
\* of that Command is still given to the transport and the receive loop goes
\* on: it is not over and the client is still marked connected, as long as
\* the client is not being closed.
C14_ActuationFailureAcked ==
    \A i \in 1..Len(handled) :
        handled[i].raised = "publish" =>
            /\ handled[i].ack \in {"pending", "sent", "failed", "cancelled"}
            /\ (i = Len(handled) /\ mainPc \in {"sync", "up"}) =>
                   (connected /\ recvPc \in {"wait", "send"})

\* C15: callback failure does not block the ack.  An error of on_twist never
\* leaves the handler of a Command.  When on_twist raises while a decoded
\* Command is handled on a connected client and the publisher does not raise,
\* the client stays marked connected and the ack of that Command, carrying
\* its message_id, is given to send_bytes; when that send returns or raises,
\* the record is added to the stats and the loop is free again, and if it
\* returned the ack is among the sent ones.
C15_CallbackFailureSwallowed ==
    [][/\ Delivered => NewEntry.raised # "callback"
       /\ (Delivered /\ connected /\ recvPc' = "send" /\ cur'.callback = "raised") =>
              /\ connected'
              /\ NewEntry.ack = "pending"
              /\ cur'.data[1] = 2
              /\ FrameQ(cur'.data, 1) = FrameQ(BytesOf(NewEntry.frame), 1)
       /\ (recvPc = "send" /\ cur.callback = "raised" /\ recvPc' = "wait") =>
              /\ connected' = connected
              /\ rx_count' = rx_count + 1
              /\ Len(records') = Len(records) + 1
              /\ records'[Len(records')].latency_ms =
                     LastEntry.rx_time
                     - PyIntValue(FrameQ(BytesOf(LastEntry.frame), 9))
              /\ NewEntry.ack \in {"sent", "failed"}
              /\ NewEntry.ack = "sent" => ackSent' = Append(ackSent, cur.data)]_vars

\* the callback raised for the second of two Commands, and yet the client is
\* connected and the handler has gone on to the send of that Command's ack
C15_Witness ==
    /\ Len(handled) = 2
    /\ handled[1].ack = "sent"
    /\ recvPc = "send"
    /\ cur.callback = "raised"
    /\ handled[2].ack = "pending"
    /\ FrameQ(cur.data, 1) = FrameQ(BytesOf(handled[2].frame), 1)
    /\ connected

\* C16: a bad frame never terminates the connection.  The delivery of a
\* Command or ClockSyncResponse frame too short for its tag changes nothing
\* of the client but the time: it stays marked connected, the receive loop
\* stays ready for the next message, no ack is sent, no sample and no record
\* is made; so the next well-formed frame is handled as any other.
C16_BadFrameSurvived ==
    [][(Delivered /\ BadFrame(NewEntry.frame)) =>
           /\ connected' = connected
           /\ recvPc = "wait" /\ recvPc' = "wait"
           /\ NewEntry.decode = "error"
           /\ UNCHANGED <<mainPc, syncPc, cur, ackSent, syncLog>>
           /\ UNCHANGED <<clockVars, statsVars>>]_vars

\* a Command cut short was delivered, then a whole Command, which was
\* decoded and whose ack was sent on the still connected client
C16_Witness ==
    /\ Len(handled) = 2
    /\ handled[1].frame = "cmdShort"
    /\ handled[1].decode = "error"
    /\ handled[2].frame = "cmdB"
    /\ handled[2].ack = "sent"
    /\ Len(ackSent) = 1
    /\ rx_count = 1
    /\ connected

\* C17: ack_count accounting.  At any time ack_count is the number of ack
\* frames whose send_bytes returned: a send that raised, one that was
\* cancelled, a Command whose ack was not attempted, and any other operation
\* leave it unchanged.
C17_AckCount ==
    /\ ack_count = Len(ackSent)
    /\ ack_count = Len(AckedEntries)
    /\ ack_count <= Cardinality({i \in 1..Len(handled) : handled[i].ack # "none"})

\* two acks were attempted, the first raised and the second returned: one
\* ack counted
C17_Witness ==
    /\ Len(handled) = 2
    /\ handled[1].ack = "failed"
    /\ handled[2].ack = "sent"
    /\ ack_count = 1
    /\ rx_count = 2

\* C18: ack correlation.  The acks sent are, in order, acks of Commands that
\* were delivered and decoded before, one ack at most per delivered Command,
\* each carrying that Command's message_id; a message that is no Command or
\* was not decoded gets no ack, not even an attempt.
C18_AckCorrelation ==
    /\ Len(ackSent) = Len(AckedEntries)
    /\ \A k \in 1..Len(ackSent) :
           /\ GoodCommand(AckedEntries[k].frame)
           /\ ackSent[k][1] = 2
           /\ FrameQ(ackSent[k], 1) = FrameQ(BytesOf(AckedEntries[k].frame), 1)
    /\ \A i \in 1..Len(handled) :
           ~GoodCommand(handled[i].frame) => handled[i].ack = "none"
    /\ recvPc = "send" =>
           /\ LastEntry.ack = "pending"
           /\ FrameQ(cur.data, 1) = FrameQ(BytesOf(LastEntry.frame), 1)

\* two Commands with different ids were delivered, the second first; both
\* acks were sent, in that order
C18_Witness ==
    /\ Len(handled) = 2
    /\ handled[1].frame = "cmdB"
    /\ handled[2].frame = "cmdA"
    /\ Len(ackSent) = 2
    /\ FrameQ(ackSent[1], 1) = MaxQ
    /\ FrameQ(ackSent[2], 1) = PyInt(12345)

\* C19: timestamps are extended, never shrunk.  The ack sent for a decoded
\* Command has 69 bytes and carries t1_browser_send, t2_relay_rx and
\* t3_relay_tx as the Command's frame held them (0 for t2 and t3 when the
\* frame had no extension), t3_python_rx equal to the time read when the
\* frame arrived, t4_python_ack equal to the time read at the ack, which is
\* not before the former, and 0 in the reserved field.
C19_AckTimestamps ==
    \A k \in 1..Len(ackSent) :
        LET a == ackSent[k]
            e == AckedEntries[k]
            c == BytesOf(e.frame)
        IN  /\ Len(a) = 69
            /\ FrameQ(a, 9) = FrameQ(c, 9)
            /\ Len(c) >= 81 => /\ FrameQ(a, 17) = FrameQ(c, 65)
                               /\ FrameQ(a, 25) = FrameQ(c, 73)
            /\ Len(c) < 81 => /\ FrameQ(a, 17) = Zero
                              /\ FrameQ(a, 25) = Zero
            /\ FrameQ(a, 33) = PyInt(e.rx_time)
            /\ FrameQ(a, 41) = PyInt(e.t4)
            /\ e.rx_time <= e.t4
            /\ FrameQ(a, 61) = Zero

\* the ack of the relay-extended Command was sent: it carries the relay's
\* two timestamps and an ack time later than the receive time
C19_Witness ==
    /\ Len(ackSent) = 1
    /\ AckedEntries[1].frame = "cmdB"
    /\ FrameQ(ackSent[1], 17) = PyInt(1005)
    /\ FrameQ(ackSent[1], 25) = PyInt(1006)
    /\ FrameQ(ackSent[1], 33) = PyInt(1015)
    /\ FrameQ(ackSent[1], 41) = PyInt(1016)

\* C20: sync sample ordering.  The samples of the synchronizer are those of
\* the decoded ClockSyncResponse frames in the order of their delivery, each
\* made of the frame's t1, t2, t3 and the time read at its handling; and a
\* message is taken up only when the handling of the one before is over:
\* no message follows a Command whose handler still awaits its ack's send.
C20_SampleOrder ==
    /\ Len(calls) = Len(SampledEntries)
    /\ \A k \in 1..Len(calls) :
           LET c == BytesOf(SampledEntries[k].frame)
           IN  calls[k] = <<PyIntValue(FrameQ(c, 1)), PyIntValue(FrameQ(c, 9)),
                            PyIntValue(FrameQ(c, 17)), SampledEntries[k].t4>>
    /\ \A i \in 1..Len(handled) - 1 : handled[i].ack # "pending"
    /\ recvPc = "send" => LastEntry.ack = "pending"

\* two different sync responses were delivered, and the two samples are in
\* the order of delivery
C20_Witness ==
    /\ Len(handled) = 2
    /\ handled[1].frame = "respB"
    /\ handled[2].frame = "respA"
    /\ Len(calls) = 2
    /\ calls[1][1] = 1001
    /\ calls[2][1] = 1000
    /\ Len(offsets) = 2

\* the delivered message e is a frame of no bytes, a frame whose leading byte
\* is neither TWIST nor CLOCK_SYNC_RESPONSE, or a TWIST frame that
\* TwistWithLatency.decode refused
Ignored(e) ==
    /\ e.frame \in FrameNames
    /\ \/ BytesOf(e.frame) = <<>>
       \/ BytesOf(e.frame)[1] \notin {1, 4}
       \/ BytesOf(e.frame)[1] = 1 /\ e.decode = "error"

\* C21: ignored and rejected frames have no effect.  The handling of an
\* empty frame, of a frame whose leading byte is neither 0x01 nor 0x04, or
\* of a TWIST frame that fails decoding leaves rx_count, ack_count, the four
\* windows of the statistics and the samples of the synchronizer as they
\* were, and gives nothing to the transport: no ack is sent or awaited and
\* no sync request is made.
C21_IgnoredFrames ==
    [][(Delivered /\ Ignored(NewEntry)) =>
           /\ UNCHANGED <<rx_count, ack_count>>
           /\ UNCHANGED <<latencies, decode_us, process_us, encode_us>>
           /\ UNCHANGED <<offsets, rtts, offset, rtt, calls>>
           /\ UNCHANGED <<ackSent, syncLog>>
           /\ recvPc' = recvPc
           /\ cur' = NoCur]_vars

\* a Command was acked; then an acknowledgment frame (0x02) came, and the
\* counts, the windows, the samples and what was sent are as the Command
\* left them
C21_Witness ==
    /\ Len(handled) = 2
    /\ handled[1].ack = "sent"
    /\ handled[2].frame = "ack"
    /\ rx_count = 1
    /\ ack_count = 1
    /\ Len(latencies) = 1
    /\ Len(decode_us) = 1
    /\ Len(offsets) = 0
    /\ Len(ackSent) = 1

\* the Commands whose handling ran to its end: _send_ack returned, the send
\* of the ack having returned, raised, or been skipped
Completed == {i \in 1..Len(handled) : handled[i].ack \in {"sent", "failed", "skipped"}}

\* C22: counter relation under task interleaving.  Wherever the tasks may
\* take turns (every state: a task runs from one await to the next),
\* ack_count <= rx_count, and rx_count is the number of Commands whose
\* handling ran to its end, those whose ack's send failed or was skipped
\* among them; a Command whose handler still awaits the send, was cancelled
\* there or was left by an error is not counted.
C22_CounterRelation ==
    /\ ack_count <= rx_count
    /\ rx_count = Cardinality(Completed)
    /\ ack_count = Cardinality({i \in Completed : handled[i].ack = "sent"})

\* the ack of the first Command failed and the Command is counted; the
\* receive task awaits the send of the second one's ack while the sync loop
\* sleeps and connect() is over
C22_Witness ==
    /\ Len(handled) = 2
    /\ handled[1].ack = "failed"
    /\ handled[2].ack = "pending"
    /\ recvPc = "send"
    /\ syncPc = "sleep"
    /\ mainPc = "up"
    /\ rx_count = 1
    /\ ack_count = 0

\* a frame is given to the transport in this step: send_bytes is called with
\* an ack (the receive task goes to its await) or with a sync request
AckHanded == recvPc' = "send" /\ recvPc # "send"
SyncHanded == Len(syncLog') > Len(syncLog)

\* C23: no send after disconnect.  Whatever the order in which the receive
\* loop, the sync loop, connect() and close() take their steps, send_bytes
\* is called with an ack or with a sync request only while the client is
\* marked connected: once the receive loop has ended or close() was called
\* the client stays marked not connected and no task gives a frame to the
\* transport.  (A send_bytes awaited since before may still return then.)
C23_NoSendAfterDisconnect ==
    [][/\ (AckHanded \/ SyncHanded) => connected'
       /\ (~connected /\ mainPc # "new") =>
              /\ ~AckHanded
              /\ ~SyncHanded
              /\ ~connected']_vars

\* close() was called while the receive task awaited the send of an ack and
\* the sync loop slept: both tasks were resumed after it, the ack's send was
\* cancelled, and the one sync request is that of connect()
C23_Witness ==
    /\ mainPc = "closed"
    /\ ~connected
    /\ recvPc = "done"
    /\ syncPc = "done"
    /\ Len(handled) = 2
    /\ handled[1].ack = "sent"
    /\ handled[2].ack = "cancelled"
    /\ Len(ackSent) = 1
    /\ Len(syncLog) = 1
    /\ syncLog[1].by = "connect"

\* C24: sync loop shutdown.  When the receive loop has ended (the transport
\* closed, a close frame came, or an error left a handler) the client is
\* marked not connected; from then on no sync request is made, the sync
\* loop ends at its next wake-up, and it does end, whether close() is ever
\* called or not.
C24_SyncLoopShutdown ==
    /\ [](recvPc = "done" => ~connected)
    /\ [][recvPc = "done" =>
              /\ ~SyncHanded
              /\ (syncPc \in {"sleep", "send"} /\ syncPc' # syncPc) => syncPc' = "done"]_vars
    /\ (recvPc = "done") ~> (syncPc = "done")

\* the sync loop made a request while the client was connected; the receive
\* loop then ended on a close frame, and the sync loop has ended with no
\* other request made, close() not having been called
C24_Witness ==
    /\ mainPc = "up"
    /\ recvPc = "done"
    /\ LastEntry.frame = "close"
    /\ ~connected
    /\ syncPc = "done"
    /\ Len(syncLog) = 2
    /\ syncLog[2].by = "loop"
    /\ syncLog[2].end = "returned"

====
